---- MODULE Spec2Model ----
(***************************************************************************)
(* Model of the agent execution engine of AgentStack:                      *)
(*   - LLMService (src/app/services/llm.py): per-backend bounded retry     *)
(*     (tenacity) wrapped in a circular fallback loop over LLMRegistry;    *)
(*   - LangGraphAgent (src/app/core/langgraph/graph.py): the two-node      *)
(*     chat / tool_call state machine and get_response, which wraps a run  *)
(*     of it in lazy initialisation, memory search and memory update.      *)
(* Coroutines run on one asyncio event loop: an action is the code between *)
(* two suspension points (an awaited backend call, tool call or sleep).    *)
(***************************************************************************)
EXTENDS Integers, Sequences, FiniteSets, TLC

VARIABLES
    default_model,        \* settings.DEFAULT_LLM_MODEL, fixed at process start
    max_retries,          \* settings.MAX_LLM_CALL_RETRIES, fixed at process start
    current_model_index,  \* LLMService._current_model_index (0-based)
    llm,                  \* LLMService._llm: [backend, bound]
    agent,                \* "none" until LangGraphAgent() is constructed, then "constructed"
    call_pc,              \* per coroutine: position inside LLMService.call
    attempt,              \* per coroutine: tenacity attempt_number of the running inner loop
    models_tried,         \* per coroutine: local models_tried of call
    invoked,              \* per coroutine: the handle of the latest ainvoke of the call
    handled,              \* per coroutine: classes of the errors call's handler caught and logged
    start_index,          \* per coroutine: sticky index read when call was entered
    fallbacks,            \* per coroutine: _switch_to_next_model runs of the call
    attempts_made,        \* per coroutine: ainvoke calls made by the call
    delays,               \* per coroutine: seconds tenacity waited in the running inner loop
    loop_backends,        \* per coroutine: backends invoked by the running inner loop
    tried,                \* per coroutine: backends invoked by the finished inner loops
    result,               \* per coroutine: value returned by call, NoResult if none
    error,                \* per coroutine: exception raised out of call, "none" if none
    messages,             \* GraphState.messages of the thread, as checkpointed
    node,                 \* per coroutine: node of the graph its turn is at
    outputs,              \* per coroutine: local outputs of _tool_call
    turn_error,           \* per coroutine: exception the turn raised to its caller
    graph,                \* LangGraphAgent._graph: "none" or "compiled"
    connection_pool,      \* LangGraphAgent._connection_pool: "none", "created" (not open), "open"
    pool_opens,           \* completed AsyncConnectionPool.open() calls
    setups,               \* completed checkpointer.setup() calls
    compiles,             \* graph_builder.compile(...) calls
    setup_unopened,       \* TRUE once checkpointer.setup() was started on a pool not yet open
    memory,               \* LangGraphAgent.memory: "none" or "created"
    turn_pc,              \* per coroutine: position inside get_response
    request,              \* per coroutine: the messages argument of get_response
    relevant_memory,      \* per coroutine: the results the memory search returned
    context,              \* per coroutine: the long_term_memory value of input_state
    response,             \* per coroutine: the list get_response returned, NoResponse if none
    tasks,                \* the memory-update tasks created, in creation order
    path                  \* per coroutine: the nodes its current turn has executed

service_vars == <<default_model, max_retries, current_model_index, llm>>

call_vars == <<call_pc, attempt, models_tried, invoked, handled, start_index, fallbacks,
               attempts_made, delays, loop_backends, tried, result, error>>

graph_vars == <<messages, node, outputs, turn_error>>

init_vars == <<graph, connection_pool, pool_opens, setups, compiles, setup_unopened>>

turn_vars == <<init_vars, memory, turn_pc, request, relevant_memory, context, response,
              tasks, path>>

vars == <<service_vars, agent, call_vars, graph_vars, turn_vars>>

----------------------------------------------------------------------------
(* LLMRegistry *)

\* LLMRegistry.LLMS, by name, in registry order (index i of the code is LLMS[i + 1]).
LLMS == <<"gpt-5-mini", "gpt-4o", "gpt-4o-mini">>

\* total_models = len(LLMRegistry.LLMS)
TotalModels == Len(LLMS)

Indices == 0 .. (TotalModels - 1)

\* LLMRegistry.get_all_names()
AllNames == {LLMS[i + 1] : i \in Indices}

\* all_names.index(name); raises ValueError (modelled by the caller's guard) when absent
IndexOf(name) == CHOOSE i \in Indices : LLMS[i + 1] = name

\* A lookup that answers an unknown name with the last entry.
RegistryGetLast(name) == IF name \in AllNames THEN IndexOf(name) ELSE TotalModels - 1

\* LLMRegistry.get(model_name): the entry of that name, else the first entry.
\* A model handle is identified by the registry position of its backend.
RegistryGet(name) == IF name \in AllNames THEN IndexOf(name) ELSE 0

\* settings.MAX_LLM_CALL_RETRIES (default of the environment variable)
MAX_LLM_CALL_RETRIES == 3

\* Values DEFAULT_LLM_MODEL may be configured to: a registry name or a name not in it.
ConfigurableDefaults == AllNames \cup {"unlisted-model"}

\* A construction that leaves the index on the head of the list whatever the default.
DefaultIndexHead(name) == 0

\* Index LLMService.__init__ leaves in _current_model_index for a configured default.
DefaultIndex(name) == IF name \in AllNames THEN IndexOf(name) ELSE 0

----------------------------------------------------------------------------
(* Exceptions of a backend invocation *)

\* Classes an ainvoke may raise: RateLimitError and APITimeoutError are APIErrors, every
\* APIError is an OpenAIError; "OpenAIError" stands for an OpenAIError that is no APIError,
\* "Exception" for an exception outside the openai hierarchy.
Exceptions == {"RateLimitError", "APITimeoutError", "APIError", "OpenAIError", "Exception"}

\* The classes the spec calls transient (rate-limit, timeout, generic API error).
Transient == {"RateLimitError", "APITimeoutError", "APIError"}

\* retry=retry_if_exception_type((RateLimitError, APITimeoutError, APIError))
IsRetryable(e) == e \in {"RateLimitError", "APITimeoutError", "APIError"}

\* except OpenAIError as e
IsOpenAIError(e) == e \in {"RateLimitError", "APITimeoutError", "APIError", "OpenAIError"}

\* A stop condition that lets one attempt more through.
StopAfterOneMore(n) == n >= max_retries + 1

\* stop=stop_after_attempt(settings.MAX_LLM_CALL_RETRIES)
StopAfterAttempt(n) == n >= max_retries

Min2(a, b) == IF a <= b THEN a ELSE b

Max2(a, b) == IF a >= b THEN a ELSE b

\* wait=wait_exponential(multiplier=1, min=2, max=10)
WaitMultiplier == 1

WaitMin == 2

WaitMax == 10

\* WaitExponential without the max=10 cap.
WaitExponentialUncapped(n) == Max2(Max2(0, WaitMin), WaitMultiplier * 2 ^ (n - 1))

\* The seconds tenacity sleeps after failed attempt n of an inner loop: the exponential
\* 2 ** (n - 1) times the multiplier, capped at max, and then raised to min.
WaitExponential(n) == Max2(Max2(0, WaitMin), Min2(WaitMultiplier * 2 ^ (n - 1), WaitMax))

\* The class of an error as the handler's log shows it: "transient" (rate-limit,
\* timeout, generic API error), "openai" (another OpenAIError), "other".
Outcome(e) ==
    IF e \in Transient THEN "transient"
    ELSE IF e = "OpenAIError" THEN "openai" ELSE "other"

\* A switch that always goes back to the head of the list.
NextIndexRestart(i) == i - i

\* A switch that stays on the failed backend.
NextIndexStay(i) == i

\* next_index = (self._current_model_index + 1) % len(LLMRegistry.LLMS)
NextIndex(i) == (i + 1) % TotalModels

\* A fallback budget of one loop more than the list has backends.
AllTriedOneMore(n) == n > TotalModels

\* if models_tried >= total_models: break
AllTried(n) == n >= TotalModels

----------------------------------------------------------------------------
(* Coroutines and messages *)

Coroutines == {1, 2}

Last(s) == s[Len(s)]

\* Bounds of the model.
MaxBatch == 2
MaxMessages == 5

\* tools (src/app/core/langgraph/tools/__init__.py): the names of the registered tools.
ToolNames == {"duckduckgo_results_json"}

\* Names a model may put in a tool-call request: a registered one and a made-up one.
RequestNames == ToolNames \cup {"made_up_tool"}

\* The call-id of a message that is no tool result (the field is absent).
NoId == 0

\* A message of the conversation: role, content, the tool-call requests of an assistant
\* message, and the call-id and tool name of a tool-result message.
Msg(role, content, calls, id, name) ==
    [role |-> role, content |-> content, tool_calls |-> calls,
     tool_call_id |-> id, name |-> name]

UserMsg == Msg("user", "question", <<>>, NoId, "")

\* Message lists a caller may submit (role and content only).
Inputs == {<<UserMsg>>, <<UserMsg, Msg("assistant", "earlier answer", <<>>, NoId, ""), UserMsg>>}

\* Call-ids are issued by the backend and are unique: the j-th request of the
\* response that becomes message number pos gets id 10 * pos + j.
Batches(pos) ==
    UNION {{[j \in 1 .. n |-> [name |-> f[j], id |-> 10 * pos + j]] :
               f \in [1 .. n -> RequestNames]} :
           n \in {k \in 0 .. MaxBatch : pos + k <= MaxMessages}}

NoResult == [backend |-> -1, content |-> "", tool_calls |-> <<>>]

\* Texts a model response may carry.
Contents == {"", "answer"}

\* Responses an invocation of a handle may return: a handle with tools bound may
\* request tool calls, a bare one cannot.
Responses(handle, pos) ==
    {[backend |-> handle.backend, content |-> t, tool_calls |-> b] :
        t \in Contents, b \in IF handle.bound THEN Batches(pos) ELSE {<<>>}}

----------------------------------------------------------------------------
(* LLMService *)

\* LLMService.__init__
InitService ==
    /\ default_model \in ConfigurableDefaults
    /\ max_retries = MAX_LLM_CALL_RETRIES
    /\ llm = [backend |-> RegistryGet(default_model), bound |-> FALSE]
    /\ current_model_index = DefaultIndex(default_model)

NoHandle == [backend |-> -1, bound |-> FALSE]

InitCalls ==
    /\ call_pc = [c \in Coroutines |-> "idle"]
    /\ attempt = [c \in Coroutines |-> 0]
    /\ models_tried = [c \in Coroutines |-> 0]
    /\ invoked = [c \in Coroutines |-> NoHandle]
    /\ handled = [c \in Coroutines |-> {}]
    /\ start_index = [c \in Coroutines |-> 0]
    /\ fallbacks = [c \in Coroutines |-> 0]
    /\ attempts_made = [c \in Coroutines |-> 0]
    /\ delays = [c \in Coroutines |-> <<>>]
    /\ loop_backends = [c \in Coroutines |-> {}]
    /\ tried = [c \in Coroutines |-> {}]
    /\ result = [c \in Coroutines |-> NoResult]
    /\ error = [c \in Coroutines |-> "none"]

\* EnterCall with the sticky index put back on the configured default at every call.
EnterCallResetIndex(c) ==
    /\ call_pc[c] \in {"idle", "returned", "raised"}
    /\ current_model_index' = DefaultIndex(default_model)
    /\ llm' = [llm EXCEPT !.backend = DefaultIndex(default_model)]
    /\ call_pc' = [call_pc EXCEPT ![c] = "invoking"]
    /\ models_tried' = [models_tried EXCEPT ![c] = 0]
    /\ attempt' = [attempt EXCEPT ![c] = 1]
    /\ invoked' = [invoked EXCEPT ![c] = llm']
    /\ handled' = [handled EXCEPT ![c] = {}]
    /\ start_index' = [start_index EXCEPT ![c] = DefaultIndex(default_model)]
    /\ fallbacks' = [fallbacks EXCEPT ![c] = 0]
    /\ attempts_made' = [attempts_made EXCEPT ![c] = 1]
    /\ delays' = [delays EXCEPT ![c] = <<>>]
    /\ loop_backends' = [loop_backends EXCEPT ![c] = {llm'.backend}]
    /\ tried' = [tried EXCEPT ![c] = {}]
    /\ result' = [result EXCEPT ![c] = NoResult]
    /\ error' = [error EXCEPT ![c] = "none"]
    /\ UNCHANGED <<default_model, max_retries, agent>>

\* LLMService.call, from entry to the first awaited ainvoke: models_tried = 0, the while
\* loop is entered and _call_with_retry makes attempt 1 on the handle self._llm.
EnterCall(c) ==
    /\ call_pc[c] \in {"idle", "returned", "raised"}
    /\ call_pc' = [call_pc EXCEPT ![c] = "invoking"]
    /\ models_tried' = [models_tried EXCEPT ![c] = 0]
    /\ attempt' = [attempt EXCEPT ![c] = 1]
    /\ invoked' = [invoked EXCEPT ![c] = llm]
    /\ handled' = [handled EXCEPT ![c] = {}]
    /\ start_index' = [start_index EXCEPT ![c] = current_model_index]
    /\ fallbacks' = [fallbacks EXCEPT ![c] = 0]
    /\ attempts_made' = [attempts_made EXCEPT ![c] = 1]
    /\ delays' = [delays EXCEPT ![c] = <<>>]
    /\ loop_backends' = [loop_backends EXCEPT ![c] = {llm.backend}]
    /\ tried' = [tried EXCEPT ![c] = {}]
    /\ result' = [result EXCEPT ![c] = NoResult]
    /\ error' = [error EXCEPT ![c] = "none"]
    /\ UNCHANGED <<service_vars, agent>>

\* The awaited ainvoke returns a message: _call_with_retry and call return it.
AinvokeReturns(c) ==
    /\ call_pc[c] = "invoking"
    /\ \E m \in Responses(invoked[c], Len(messages) + 1) : result' = [result EXCEPT ![c] = m]
    /\ call_pc' = [call_pc EXCEPT ![c] = "returned"]
    /\ UNCHANGED <<service_vars, agent, attempt, models_tried, invoked, handled,
                   start_index, fallbacks, attempts_made, delays, loop_backends, tried, error>>

\* tenacity sleeps before the next attempt of the same inner loop.
BackOff(c, e) ==
    /\ call_pc' = [call_pc EXCEPT ![c] = "sleeping"]
    /\ delays' = [delays EXCEPT ![c] = Append(@, WaitExponential(attempt[c]))]
    /\ UNCHANGED <<service_vars, agent, attempt, models_tried, invoked, handled, start_index,
                   fallbacks, attempts_made, loop_backends, tried, result, error>>

\* An exception that is no OpenAIError leaves call through no handler.
Propagate(c, e) ==
    /\ call_pc' = [call_pc EXCEPT ![c] = "raised"]
    /\ error' = [error EXCEPT ![c] = e]
    /\ UNCHANGED <<service_vars, agent, attempt, models_tried, invoked, handled, start_index,
                   fallbacks, attempts_made, delays, loop_backends, tried, result>>

\* call's handler, every model tried: break, then raise RuntimeError("Failed to get
\* response from any LLM after exhausting all options.")
RaiseExhausted(c, e) ==
    /\ call_pc' = [call_pc EXCEPT ![c] = "raised"]
    /\ error' = [error EXCEPT ![c] = "RuntimeError"]
    /\ models_tried' = [models_tried EXCEPT ![c] = @ + 1]
    /\ handled' = [handled EXCEPT ![c] = @ \cup {Outcome(e)}]
    /\ UNCHANGED <<service_vars, agent, attempt, invoked, start_index, fallbacks,
                   attempts_made, delays, loop_backends, tried, result>>

\* call's handler, models left: _switch_to_next_model, then the while loop runs
\* _call_with_retry again, which makes attempt 1 on the new handle.
SwitchToNextModel(c, e) ==
    /\ current_model_index' = NextIndex(current_model_index)
    /\ llm' = [backend |-> NextIndex(current_model_index), bound |-> FALSE]
    /\ models_tried' = [models_tried EXCEPT ![c] = @ + 1]
    /\ fallbacks' = [fallbacks EXCEPT ![c] = @ + 1]
    /\ attempt' = [attempt EXCEPT ![c] = 1]
    /\ invoked' = [invoked EXCEPT ![c] = llm']
    /\ handled' = [handled EXCEPT ![c] = @ \cup {Outcome(e)}]
    /\ attempts_made' = [attempts_made EXCEPT ![c] = @ + 1]
    /\ delays' = [delays EXCEPT ![c] = <<>>]
    /\ tried' = [tried EXCEPT ![c] = @ \cup loop_backends[c]]
    /\ loop_backends' = [loop_backends EXCEPT ![c] = {llm'.backend}]
    /\ call_pc' = [call_pc EXCEPT ![c] = "invoking"]
    /\ UNCHANGED <<default_model, max_retries, agent, start_index, result, error>>

\* except OpenAIError as e: models_tried += 1; break when every model was tried, else
\* switch.  Any other exception propagates.
HandleFailure(c, e) ==
    IF IsOpenAIError(e)
    THEN IF AllTried(models_tried[c] + 1)
         THEN RaiseExhausted(c, e)
         ELSE SwitchToNextModel(c, e)
    ELSE Propagate(c, e)

\* The awaited ainvoke raises e: tenacity retries a retryable class until the attempt
\* budget is spent and re-raises otherwise (reraise=True); call handles what it re-raises.
AinvokeRaises(c) ==
    /\ call_pc[c] = "invoking"
    /\ \E e \in Exceptions :
           IF IsRetryable(e) /\ ~StopAfterAttempt(attempt[c])
           THEN BackOff(c, e)
           ELSE HandleFailure(c, e)

\* The backoff sleep ends: the next attempt reads self._llm and awaits ainvoke.
RetryWake(c) ==
    /\ call_pc[c] = "sleeping"
    /\ call_pc' = [call_pc EXCEPT ![c] = "invoking"]
    /\ attempt' = [attempt EXCEPT ![c] = @ + 1]
    /\ invoked' = [invoked EXCEPT ![c] = llm]
    /\ attempts_made' = [attempts_made EXCEPT ![c] = @ + 1]
    /\ loop_backends' = [loop_backends EXCEPT ![c] = @ \cup {llm.backend}]
    /\ UNCHANGED <<service_vars, agent, models_tried, handled, start_index, fallbacks,
                   delays, tried, result, error>>

\* LLMService.bind_tools(tools): wraps the current handle only.
BindTools(handle) == [handle EXCEPT !.bound = TRUE]

\* LangGraphAgent.__init__: self.llm_service = llm_service.bind_tools(tools)
AgentInit ==
    /\ agent = "none"
    /\ agent' = "constructed"
    /\ llm' = BindTools(llm)
    /\ UNCHANGED <<default_model, max_retries, current_model_index, call_vars, graph_vars,
                   turn_vars>>

----------------------------------------------------------------------------
(* LangGraphAgent: the chat / tool_call state machine *)

InitGraph ==
    /\ messages = <<>>
    /\ node = [c \in Coroutines |-> "none"]
    /\ outputs = [c \in Coroutines |-> <<>>]
    /\ turn_error = [c \in Coroutines |-> "none"]

\* The list get_response has not returned.
NoResponse == <<[role |-> "none", content |-> ""]>>

\* LangGraphAgent.__init__: no pool, no graph, no memory client; no turn yet.
InitOrchestrator ==
    /\ graph = "none"
    /\ connection_pool = "none"
    /\ pool_opens = 0
    /\ setups = 0
    /\ compiles = 0
    /\ setup_unopened = FALSE
    /\ memory = "none"
    /\ turn_pc = [c \in Coroutines |-> "idle"]
    /\ request = [c \in Coroutines |-> <<>>]
    /\ relevant_memory = [c \in Coroutines |-> <<>>]
    /\ context = [c \in Coroutines |-> ""]
    /\ response = [c \in Coroutines |-> NoResponse]
    /\ tasks = <<>>
    /\ path = [c \in Coroutines |-> <<>>]

\* The reducer of GraphState.messages: an update is appended to the sequence.
AddMessages(left, right) == left \o right

\* The locals of a finished call are dead once its caller has taken the outcome.
CallLocalsDropped(c) ==
    /\ call_pc' = [call_pc EXCEPT ![c] = "idle"]
    /\ attempt' = [attempt EXCEPT ![c] = 0]
    /\ models_tried' = [models_tried EXCEPT ![c] = 0]
    /\ invoked' = [invoked EXCEPT ![c] = NoHandle]
    /\ handled' = [handled EXCEPT ![c] = {}]
    /\ start_index' = [start_index EXCEPT ![c] = 0]
    /\ fallbacks' = [fallbacks EXCEPT ![c] = 0]
    /\ attempts_made' = [attempts_made EXCEPT ![c] = 0]
    /\ delays' = [delays EXCEPT ![c] = <<>>]
    /\ loop_backends' = [loop_backends EXCEPT ![c] = {}]
    /\ tried' = [tried EXCEPT ![c] = {}]
    /\ result' = [result EXCEPT ![c] = NoResult]
    /\ error' = [error EXCEPT ![c] = "none"]

\* self._graph.ainvoke(input_state, config) in get_response: the input messages are
\* added to the thread's state and the run starts at the entry point, set_entry_point("chat").
\* The thread holds one completed turn and nothing else, and its input was this list.
CompletedTurnOf(input) ==
    /\ Len(messages) > Len(input)
    /\ SubSeq(messages, 1, Len(input)) = input
    /\ \A i \in (Len(input) + 1) .. Len(messages) : messages[i].role # "user"
    /\ messages[Len(messages)].role = "assistant"
    /\ messages[Len(messages)].tool_calls = <<>>

\* A run that resumes: a list whose turn the thread already completed is not added
\* again and the run ends at once.
StartRunResumed(c, input) ==
    /\ agent = "constructed"
    /\ node[c] \in {"none", "END", "failed"}
    /\ Len(messages) + Len(input) <= MaxMessages
    /\ messages' = IF CompletedTurnOf(input) THEN messages ELSE AddMessages(messages, input)
    /\ node' = [node EXCEPT ![c] = IF CompletedTurnOf(input) THEN "END" ELSE "chat"]
    /\ turn_error' = [turn_error EXCEPT ![c] = "none"]
    /\ UNCHANGED <<service_vars, agent, call_vars, outputs>>

StartRun(c, input) ==
    /\ agent = "constructed"
    /\ node[c] \in {"none", "END", "failed"}
    /\ Len(messages) + Len(input) <= MaxMessages
    /\ messages' = AddMessages(messages, input)
    /\ node' = [node EXCEPT ![c] = "chat"]
    /\ turn_error' = [turn_error EXCEPT ![c] = "none"]
    /\ UNCHANGED <<service_vars, agent, call_vars, outputs>>

\* A run of the graph on some message list.
GraphInvoke(c) == \E input \in Inputs : StartRun(c, input)

\* _chat, up to the awaited self.llm_service.call(dump_messages(messages)).
ChatEnter(c) ==
    /\ node[c] = "chat"
    /\ call_pc[c] = "idle"
    /\ Len(messages) < MaxMessages
    /\ EnterCall(c)
    /\ UNCHANGED graph_vars

\* A routing with the two branches swapped.
RouteInverted(m) == IF m.tool_calls = <<>> THEN "tool_call" ELSE "END"

\* if response_message.tool_calls: goto = "tool_call" else: goto = END
Route(m) == IF m.tool_calls # <<>> THEN "tool_call" ELSE "END"

\* The message _chat puts in its update: the model's response (process_llm_response
\* reshapes the content and leaves the tool-call requests as returned).
AssistantMsg(r) == Msg("assistant", r.content, r.tool_calls, NoId, "")

\* _chat after a successful call: Command(update={"messages": [response_message]},
\* goto=goto); a tool_call node that starts has outputs = [].
ChatReturn(c) ==
    /\ node[c] = "chat"
    /\ call_pc[c] = "returned"
    /\ messages' = AddMessages(messages, <<AssistantMsg(result[c])>>)
    /\ node' = [node EXCEPT ![c] = Route(AssistantMsg(result[c]))]
    /\ outputs' = [outputs EXCEPT ![c] = <<>>]
    /\ CallLocalsDropped(c)
    /\ UNCHANGED <<service_vars, agent, turn_error>>

\* _chat when call raises: the error is logged and re-raised; the run ends with it.
ChatRaise(c) ==
    /\ node[c] = "chat"
    /\ call_pc[c] = "raised"
    /\ node' = [node EXCEPT ![c] = "failed"]
    /\ turn_error' = [turn_error EXCEPT ![c] = error[c]]
    /\ CallLocalsDropped(c)
    /\ UNCHANGED <<service_vars, agent, messages, outputs>>

\* A lookup that finds a tool under any name.
ResolvesAnything(name) == TRUE

\* self.tools_by_name[tool_call["name"]]: a KeyError unless the name is registered.
Resolves(name) == name \in ToolNames

\* A result that always carries the call-id of the first request of the batch.
ToolMessageFirstId(batch, j, content) ==
    Msg("tool", content, <<>>, batch[1].id, batch[j].name)

\* A result that carries no call-id.
ToolMessageNoId(batch, j, content) ==
    Msg("tool", content, <<>>, NoId, batch[j].name)

\* ToolMessage(content=str(tool_result), name=tool_call["name"],
\*             tool_call_id=tool_call["id"]) for the j-th request of the batch
ToolMessage(batch, j, content) ==
    Msg("tool", content, <<>>, batch[j].id, batch[j].name)

\* The requests _tool_call iterates over: state.messages[-1].tool_calls
PendingBatch == messages[Len(messages)].tool_calls

\* A tool_call node that ends the turn once its tools have run.
AfterToolsEnd == "END"

\* goto="chat" of the Command _tool_call returns
AfterTools == "chat"

\* _tool_call, one iteration whose tool resolves and returns; after the last one,
\* Command(update={"messages": outputs}, goto="chat").
ToolCallStep(c) ==
    /\ node[c] = "tool_call"
    /\ LET j == Len(outputs[c]) + 1
           out == Append(outputs[c], ToolMessage(PendingBatch, j, "tool result"))
       IN /\ Resolves(PendingBatch[j].name)
          /\ IF j = Len(PendingBatch)
             THEN /\ messages' = AddMessages(messages, out)
                  /\ node' = [node EXCEPT ![c] = AfterTools]
                  /\ outputs' = [outputs EXCEPT ![c] = <<>>]
             ELSE /\ outputs' = [outputs EXCEPT ![c] = out]
                  /\ UNCHANGED <<messages, node>>
    /\ UNCHANGED <<service_vars, agent, call_vars, turn_error>>

\* A failing iteration that still commits the results gathered before it.
ToolCallRaisesCommits(c) ==
    /\ node[c] = "tool_call"
    /\ Resolves(PendingBatch[Len(outputs[c]) + 1].name)
    /\ messages' = AddMessages(messages, outputs[c])
    /\ node' = [node EXCEPT ![c] = "failed"]
    /\ turn_error' = [turn_error EXCEPT ![c] = "ToolError"]
    /\ UNCHANGED <<service_vars, agent, call_vars, outputs>>

\* _tool_call, an iteration whose tool resolves and whose ainvoke raises.
ToolCallRaises(c) ==
    /\ node[c] = "tool_call"
    /\ Resolves(PendingBatch[Len(outputs[c]) + 1].name)
    /\ node' = [node EXCEPT ![c] = "failed"]
    /\ turn_error' = [turn_error EXCEPT ![c] = "ToolError"]
    /\ UNCHANGED <<service_vars, agent, call_vars, messages, outputs>>

\* _tool_call, an iteration whose tool name is not registered: KeyError.
ToolCallUnknown(c) ==
    /\ node[c] = "tool_call"
    /\ ~Resolves(PendingBatch[Len(outputs[c]) + 1].name)
    /\ node' = [node EXCEPT ![c] = "failed"]
    /\ turn_error' = [turn_error EXCEPT ![c] = "KeyError"]
    /\ UNCHANGED <<service_vars, agent, call_vars, messages, outputs>>

----------------------------------------------------------------------------
(* LangGraphAgent.get_response: lazy initialisation, memory search, the run of the
   graph, the memory-update task and the returned list *)

\* Result sequences memory_client.search may return under "results" (the memory texts).
SearchResults ==
    {<<>>, <<"likes tea">>, <<"likes tea", "lives in Paris">>, <<"lives in Paris", "likes tea">>}

\* memory_context or "No relevant memory found."
Sentinel == "No relevant memory found."

\* "\n".join(lines)
RECURSIVE JoinLines(_)
JoinLines(lines) ==
    IF lines = <<>> THEN ""
    ELSE IF Len(lines) = 1 THEN lines[1]
    ELSE lines[1] \o "\n" \o JoinLines(Tail(lines))

\* memory_context = "\n".join([f"* {res['memory']}" for res in results])
MemoryContext(results) == JoinLines([i \in 1 .. Len(results) |-> "* " \o results[i]])

\* A context that is left empty when nothing was found.
LongTermMemoryNoSentinel(results) == MemoryContext(results)

\* "long_term_memory": memory_context or "No relevant memory found."
LongTermMemory(results) ==
    IF MemoryContext(results) = "" THEN Sentinel ELSE MemoryContext(results)

\* {"role": ..., "content": ...} of convert_to_openai_messages, as _process_messages reads it.
OpenAIMsg(m) == [role |-> m.role, content |-> m.content]

\* A filter that does not look at the content.
KeptAnyContent(m) == m.role \in {"assistant", "user"}

\* A filter that keeps the assistant's messages only.
KeptAssistantOnly(m) == m.role = "assistant" /\ m.content # ""

\* if m["role"] in ["assistant", "user"] and m["content"]
Kept(m) == m.role \in {"assistant", "user"} /\ m.content # ""

\* _process_messages(final_state["messages"])
ProcessMessages(msgs) ==
    LET openai_msgs == [i \in 1 .. Len(msgs) |-> OpenAIMsg(msgs[i])]
    IN  SelectSeq(openai_msgs, Kept)

\* Message lists a caller of get_response may submit: those of Inputs and one that
\* opens with a system message.
Requests == Inputs \cup {<<Msg("system", "be brief", <<>>, NoId, ""), UserMsg>>}

\* get_response after initialisation: memory_client = await self._long_term_memory(),
\* which creates the client when self.memory is None, then the search.
MemoryPhase == IF memory = "none" THEN "creating_memory" ELSE "searching"

\* get_response is entered: if self._graph is None, create_graph runs up to its first
\* await: _get_connection_pool creates the pool (open=False) and awaits its open() when
\* self._connection_pool is None, and otherwise hands the existing pool to
\* AsyncPostgresSaver, whose setup() is awaited.
GetResponseEnter(c) ==
    /\ agent = "constructed"
    /\ turn_pc[c] \in {"idle", "returned", "raised"}
    /\ \E input \in Requests :
           /\ Len(messages) + Len(input) <= MaxMessages
           /\ request' = [request EXCEPT ![c] = input]
    /\ response' = [response EXCEPT ![c] = NoResponse]
    /\ path' = [path EXCEPT ![c] = <<>>]
    /\ turn_error' = [turn_error EXCEPT ![c] = "none"]
    /\ IF graph # "none"
       THEN /\ turn_pc' = [turn_pc EXCEPT ![c] = MemoryPhase]
            /\ UNCHANGED <<connection_pool, setup_unopened>>
       ELSE IF connection_pool = "none"
       THEN /\ connection_pool' = "created"
            /\ turn_pc' = [turn_pc EXCEPT ![c] = "opening_pool"]
            /\ UNCHANGED setup_unopened
       ELSE /\ turn_pc' = [turn_pc EXCEPT ![c] = "setting_up"]
            /\ setup_unopened' = (setup_unopened \/ connection_pool # "open")
            /\ UNCHANGED connection_pool
    /\ UNCHANGED <<service_vars, agent, call_vars, messages, node, outputs,
                   graph, pool_opens, setups, compiles, memory, relevant_memory, context, tasks>>

\* await self._connection_pool.open() returns; create_graph goes on to
\* checkpointer = AsyncPostgresSaver(connection_pool); await checkpointer.setup()
PoolOpened(c) ==
    /\ turn_pc[c] = "opening_pool"
    /\ connection_pool' = "open"
    /\ pool_opens' = pool_opens + 1
    /\ turn_pc' = [turn_pc EXCEPT ![c] = "setting_up"]
    /\ UNCHANGED <<service_vars, agent, call_vars, graph_vars, graph, setups, compiles,
                   setup_unopened, memory, request, relevant_memory, context, response, tasks, path>>

\* await checkpointer.setup() returns: self._graph = graph_builder.compile(...);
\* get_response goes on to the memory client.
SetupDone(c) ==
    /\ turn_pc[c] = "setting_up"
    /\ setups' = setups + 1
    /\ compiles' = compiles + 1
    /\ graph' = "compiled"
    /\ turn_pc' = [turn_pc EXCEPT ![c] = MemoryPhase]
    /\ UNCHANGED <<service_vars, agent, call_vars, graph_vars, connection_pool, pool_opens,
                   setup_unopened, memory, request, relevant_memory, context, response, tasks, path>>

\* _long_term_memory: await AsyncMemory.from_config(...) returns; the search is awaited.
MemoryCreated(c) ==
    /\ turn_pc[c] = "creating_memory"
    /\ memory' = "created"
    /\ turn_pc' = [turn_pc EXCEPT ![c] = "searching"]
    /\ UNCHANGED <<service_vars, agent, call_vars, graph_vars, init_vars,
                   request, relevant_memory, context, response, tasks, path>>

\* An exception get_response does not catch leaves it: the caller gets the error.
Raised(c, e) ==
    /\ turn_pc' = [turn_pc EXCEPT ![c] = "raised"]
    /\ turn_error' = [turn_error EXCEPT ![c] = e]
    /\ context' = [context EXCEPT ![c] = ""]
    /\ relevant_memory' = [relevant_memory EXCEPT ![c] = <<>>]

\* await AsyncMemory.from_config(...) raises inside get_response.
MemoryCreateFails(c) ==
    /\ turn_pc[c] = "creating_memory"
    /\ Raised(c, "MemoryError")
    /\ UNCHANGED <<service_vars, agent, call_vars, messages, node, outputs, init_vars,
                   memory, request, response, tasks, path>>

\* await memory_client.search(user_id=..., query=messages[-1].content) returns:
\* the context is built and self._graph.ainvoke(input_state, config) is awaited.
SearchReturns(c) ==
    /\ turn_pc[c] = "searching"
    /\ \E results \in SearchResults :
           /\ relevant_memory' = [relevant_memory EXCEPT ![c] = results]
           /\ context' = [context EXCEPT ![c] = LongTermMemory(results)]
    /\ turn_pc' = [turn_pc EXCEPT ![c] = "invoking"]
    /\ UNCHANGED <<service_vars, agent, call_vars, graph_vars, init_vars, memory,
                   request, response, tasks, path>>

\* await memory_client.search(...) raises: get_response has no handler around it.
SearchFails(c) ==
    /\ turn_pc[c] = "searching"
    /\ Raised(c, "SearchError")
    /\ UNCHANGED <<service_vars, agent, call_vars, messages, node, outputs, init_vars,
                   memory, request, response, tasks, path>>


\* final_state = await self._graph.ainvoke(input_state, config=config) starts the run.
GetResponseInvoke(c) ==
    /\ turn_pc[c] = "invoking"
    /\ StartRun(c, request[c])
    /\ turn_pc' = [turn_pc EXCEPT ![c] = "in_graph"]
    /\ path' = [path EXCEPT ![c] = <<"chat">>]
    /\ UNCHANGED <<init_vars, memory, request, relevant_memory, context, response, tasks>>

\* A node was entered: the turn's path grows by it.
Visits(c) ==
    path' = [path EXCEPT ![c] = IF node'[c] # node[c] /\ node'[c] \in {"chat", "tool_call"}
                                THEN Append(@, node'[c]) ELSE @]

\* The variables of get_response a node of the graph leaves alone.
turn_frame == <<init_vars, memory, turn_pc, request, relevant_memory, context, response, tasks>>

\* A task that is given the last message of the turn only.
CreateTaskOfLast(msgs) == Append(tasks, [messages |-> <<msgs[Len(msgs)]>>, state |-> "pending"])

\* asyncio.create_task(self._update_long_term_memory(user_id, final_state["messages"]))
CreateTask(msgs) == Append(tasks, [messages |-> msgs, state |-> "pending"])

\* The run reached END: ainvoke returns the final state; the update task is created
\* and get_response returns self._process_messages(final_state["messages"]).
GetResponseReturn(c) ==
    /\ turn_pc[c] = "in_graph"
    /\ node[c] = "END"
    /\ tasks' = CreateTask(messages)
    /\ response' = [response EXCEPT ![c] = ProcessMessages(messages)]
    /\ turn_pc' = [turn_pc EXCEPT ![c] = "returned"]
    /\ context' = [context EXCEPT ![c] = ""]
    /\ relevant_memory' = [relevant_memory EXCEPT ![c] = <<>>]
    /\ UNCHANGED <<service_vars, agent, call_vars, graph_vars, init_vars, memory,
                   request, path>>

\* A get_response that answers with what the thread holds when a node raised.
GetResponseRaiseSwallowed(c) ==
    /\ turn_pc[c] = "in_graph"
    /\ node[c] = "failed"
    /\ response' = [response EXCEPT ![c] = ProcessMessages(messages)]
    /\ turn_pc' = [turn_pc EXCEPT ![c] = "returned"]
    /\ context' = [context EXCEPT ![c] = ""]
    /\ relevant_memory' = [relevant_memory EXCEPT ![c] = <<>>]
    /\ UNCHANGED <<service_vars, agent, call_vars, graph_vars, init_vars, memory,
                   request, tasks, path>>

\* A node raised: ainvoke raises the error and get_response lets it through.
GetResponseRaise(c) ==
    /\ turn_pc[c] = "in_graph"
    /\ node[c] = "failed"
    /\ Raised(c, turn_error[c])
    /\ UNCHANGED <<service_vars, agent, call_vars, messages, node, outputs, init_vars,
                   memory, request, response, tasks, path>>

\* _update_long_term_memory runs to its end: the client is there (created if it was
\* not) and memory_client.add(messages, user_id=user_id) returns.
UpdateTaskDone(i) ==
    /\ tasks[i].state = "pending"
    /\ tasks' = [tasks EXCEPT ![i].state = "done"]
    /\ memory' = "created"
    /\ UNCHANGED <<service_vars, agent, call_vars, graph_vars, init_vars, turn_pc,
                   request, relevant_memory, context, response, path>>

\* An update task whose error is not caught: it reaches the turns of the agent, which
\* lose their response to it.
UpdateTaskFailsSurfaced(i) ==
    /\ tasks[i].state = "pending"
    /\ tasks' = [tasks EXCEPT ![i].state = "failed"]
    /\ turn_pc' = [c \in Coroutines |-> "raised"]
    /\ turn_error' = [c \in Coroutines |-> "MemoryUpdateError"]
    /\ response' = [c \in Coroutines |-> NoResponse]
    /\ UNCHANGED <<service_vars, agent, call_vars, messages, node, outputs, init_vars,
                   memory, request, relevant_memory, context, path>>

\* _update_long_term_memory: from_config or add raises; except Exception logs
\* memory_update_failed and the task ends.
UpdateTaskFails(i) ==
    /\ tasks[i].state = "pending"
    /\ tasks' = [tasks EXCEPT ![i].state = "failed"]
    /\ UNCHANGED <<service_vars, agent, call_vars, graph_vars, init_vars, memory, turn_pc,
                   request, relevant_memory, context, response, path>>

----------------------------------------------------------------------------
(* Specifications of the service alone: coroutines that call llm_service.call *)

Init == InitService /\ InitCalls /\ InitGraph /\ InitOrchestrator /\ agent = "none"

ServiceStep(c) ==
    \/ (EnterCall(c) /\ UNCHANGED <<graph_vars, turn_vars>>)
    \/ (AinvokeReturns(c) /\ UNCHANGED <<graph_vars, turn_vars>>)
    \/ (AinvokeRaises(c) /\ UNCHANGED <<graph_vars, turn_vars>>)
    \/ (RetryWake(c) /\ UNCHANGED <<graph_vars, turn_vars>>)

\* One coroutine: calls follow one another.
NextSeq == AgentInit \/ ServiceStep(1)

SpecSeq == Init /\ [][NextSeq]_vars

\* Two coroutines share the service.
NextConc == \E c \in Coroutines :
    \/ (call_pc[c] = "idle" /\ EnterCall(c) /\ UNCHANGED <<graph_vars, turn_vars>>)
    \/ (AinvokeReturns(c) /\ UNCHANGED <<graph_vars, turn_vars>>)
    \/ (AinvokeRaises(c) /\ UNCHANGED <<graph_vars, turn_vars>>)
    \/ (RetryWake(c) /\ UNCHANGED <<graph_vars, turn_vars>>)

\* The default configuration (DEFAULT_LLM_MODEL = "gpt-4o-mini") with the agent constructed.
InitConc ==
    /\ default_model = "gpt-4o-mini"
    /\ max_retries = MAX_LLM_CALL_RETRIES
    /\ llm = BindTools([backend |-> RegistryGet(default_model), bound |-> FALSE])
    /\ current_model_index = DefaultIndex(default_model)
    /\ agent = "constructed"
    /\ InitCalls
    /\ InitGraph
    /\ InitOrchestrator

\* Two coroutines, each making one call on the shared service.
SpecConc == InitConc /\ [][NextConc]_vars

----------------------------------------------------------------------------
(* Specification of the agent: turns on one thread, one after the other *)

TurnStep(c) ==
    \/ (GraphInvoke(c) /\ UNCHANGED turn_vars)
    \/ (ChatEnter(c) /\ UNCHANGED turn_vars)
    \/ (AinvokeReturns(c) /\ UNCHANGED <<graph_vars, turn_vars>>)
    \/ (AinvokeRaises(c) /\ UNCHANGED <<graph_vars, turn_vars>>)
    \/ (RetryWake(c) /\ UNCHANGED <<graph_vars, turn_vars>>)
    \/ (ChatReturn(c) /\ UNCHANGED turn_vars)
    \/ (ChatRaise(c) /\ UNCHANGED turn_vars)
    \/ (ToolCallStep(c) /\ UNCHANGED turn_vars)
    \/ (ToolCallRaises(c) /\ UNCHANGED turn_vars)
    \/ (ToolCallUnknown(c) /\ UNCHANGED turn_vars)

Next == AgentInit \/ TurnStep(1)

Spec == Init /\ [][Next]_vars

----------------------------------------------------------------------------
(* Specification of get_response: turns on one thread, one after the other, with the
   update tasks running in between *)

GetResponseStep(c) ==
    \/ GetResponseEnter(c)
    \/ PoolOpened(c)
    \/ SetupDone(c)
    \/ MemoryCreated(c)
    \/ MemoryCreateFails(c)
    \/ SearchReturns(c)
    \/ SearchFails(c)
    \/ GetResponseInvoke(c)
    \/ (ChatEnter(c) /\ UNCHANGED turn_vars)
    \/ (AinvokeReturns(c) /\ UNCHANGED <<graph_vars, turn_vars>>)
    \/ (AinvokeRaises(c) /\ UNCHANGED <<graph_vars, turn_vars>>)
    \/ (RetryWake(c) /\ UNCHANGED <<graph_vars, turn_vars>>)
    \/ (ChatReturn(c) /\ Visits(c) /\ UNCHANGED turn_frame)
    \/ (ChatRaise(c) /\ Visits(c) /\ UNCHANGED turn_frame)
    \/ (ToolCallStep(c) /\ Visits(c) /\ UNCHANGED turn_frame)
    \/ (ToolCallRaises(c) /\ Visits(c) /\ UNCHANGED turn_frame)
    \/ (ToolCallUnknown(c) /\ Visits(c) /\ UNCHANGED turn_frame)
    \/ GetResponseReturn(c)
    \/ GetResponseRaise(c)

UpdateTaskStep == \E i \in 1 .. Len(tasks) : UpdateTaskDone(i) \/ UpdateTaskFails(i)

NextTurn == GetResponseStep(1) \/ UpdateTaskStep

SpecTurn == InitConc /\ [][NextTurn]_vars

\* First turns of two coroutines on one agent, up to the start of their runs.
NextFirst == \E c \in Coroutines :
    \/ (turn_pc[c] = "idle" /\ GetResponseEnter(c))
    \/ PoolOpened(c)
    \/ SetupDone(c)
    \/ MemoryCreated(c)
    \/ MemoryCreateFails(c)
    \/ SearchReturns(c)
    \/ SearchFails(c)

SpecFirst == InitConc /\ [][NextFirst]_vars

----------------------------------------------------------------------------
(* Properties of LLMService.call, one call at a time (SpecSeq) *)

\* The backend the call is at after k fallbacks from its starting index.
BackendAfter(c, k) == (start_index[c] + k) % TotalModels

\* Every inner loop the call has left was left on a transient error with the whole
\* attempt budget spent.
FailedLoopsSpentBudget(c) ==
    /\ handled[c] \subseteq {"transient"}
    /\ attempts_made[c] = models_tried[c] * MAX_LLM_CALL_RETRIES + attempt[c]

\* C1: a single call that starts at sticky index s, whose backends s .. s+k-1 each fail
\* all MAX_LLM_CALL_RETRIES attempts with a transient error and whose backend s+k
\* succeeds (0 <= k < N), returns that backend's response after exactly k fallbacks,
\* having tried the backends in circular registry order, with the index at (s+k) mod N.
C1_CircularFallback ==
    \A c \in Coroutines :
        /\ (call_pc[c] \in {"invoking", "sleeping", "returned"} /\ FailedLoopsSpentBudget(c))
               => /\ invoked[c].backend = BackendAfter(c, models_tried[c])
                  /\ tried[c] = {BackendAfter(c, j) : j \in 0 .. (models_tried[c] - 1)}
                  /\ loop_backends[c] = {BackendAfter(c, models_tried[c])}
        /\ (call_pc[c] = "returned" /\ FailedLoopsSpentBudget(c))
               => /\ models_tried[c] < TotalModels
                  /\ fallbacks[c] = models_tried[c]
                  /\ result[c] # NoResult
                  /\ result[c].backend = BackendAfter(c, models_tried[c])
                  /\ current_model_index = BackendAfter(c, models_tried[c])
                  /\ error[c] = "none"

\* Two backends failed three transient attempts each, the third one answered: the
\* index wrapped around the end of the registry.
C1_Witness ==
    /\ call_pc[1] = "returned"
    /\ FailedLoopsSpentBudget(1)
    /\ models_tried[1] = 2
    /\ attempts_made[1] = 2 * MAX_LLM_CALL_RETRIES + 1
    /\ start_index[1] = 2
    /\ result[1].backend = 1

\* C2: a single call whose N backends all fail all their retries with a transient error
\* raises the terminal exhaustion error and returns no message, after running the inner
\* retry loop exactly once on each of the N distinct backends; the outer loop never runs
\* more than N times.
C2_Exhaustion ==
    \A c \in Coroutines :
        /\ models_tried[c] <= TotalModels
        /\ fallbacks[c] <= TotalModels - 1
        /\ (models_tried[c] = TotalModels /\ handled[c] \subseteq {"transient"})
               => /\ call_pc[c] = "raised"
                  /\ error[c] = "RuntimeError"
                  /\ result[c] = NoResult
                  /\ attempts_made[c] = TotalModels * MAX_LLM_CALL_RETRIES
                  /\ Cardinality(tried[c]) = TotalModels - 1
                  /\ Cardinality(loop_backends[c]) = 1
                  /\ tried[c] \cup loop_backends[c] = Indices
        /\ error[c] = "RuntimeError" => models_tried[c] = TotalModels

C2_Witness ==
    /\ call_pc[1] = "raised"
    /\ error[1] = "RuntimeError"
    /\ handled[1] = {"transient"}
    /\ attempts_made[1] = TotalModels * MAX_LLM_CALL_RETRIES

\* A step that takes coroutine c into call.
EntersCall(c) == call_pc[c] \in {"idle", "returned", "raised"} /\ call_pc'[c] = "invoking"

\* C3: the sticky index persists across calls: a call that succeeds leaves the index
\* where its last fallback put it, no call resets it to the originally preferred backend
\* (the index only ever moves to the next registry position), and the next call makes
\* its first attempt on the backend at that index.
C3_StickyIndex ==
    [][\A c \in Coroutines :
          /\ (call_pc[c] = "invoking" /\ call_pc'[c] = "returned")
                 => /\ current_model_index' = current_model_index
                    /\ current_model_index' = BackendAfter(c, fallbacks[c])
          /\ EntersCall(c)
                 => /\ current_model_index' = current_model_index
                    /\ invoked'[c].backend = current_model_index
          /\ current_model_index' # current_model_index
                 => current_model_index' = (current_model_index + 1) % TotalModels]_vars

\* A call has just been entered on a backend other than the configured default: an
\* earlier call fell back and the index stayed.
C3_Witness ==
    /\ call_pc[1] = "invoking"
    /\ attempts_made[1] = 1
    /\ current_model_index # DefaultIndex(default_model)
    /\ invoked[1].backend = current_model_index

\* C5: an error of a backend invocation that is not in the transient classes is never
\* retried and propagates out of call at once: the call has raised that error, and made
\* no attempt after it.
C5_NonTransientPropagates ==
    \A c \in Coroutines :
        ("openai" \in handled[c] \/ error[c] \in {"OpenAIError", "Exception"})
            => /\ call_pc[c] = "raised"
               /\ error[c] \in {"OpenAIError", "Exception"}

\* C6 as stated: every time the handler counts a failed backend, the last (N-th) time
\* of a call included, the sticky index advances to (index + 1) mod N.
C6_AdvancesOnEveryExhaustion ==
    [][\A c \in Coroutines :
          models_tried'[c] = models_tried[c] + 1
              => current_model_index' = (current_model_index + 1) % TotalModels]_vars

\* C6 as amended: the index advances to (index + 1) mod N on each exhaustion of a call
\* but the N-th; on the N-th the index stays and the call raises.
C6_AdvancesUnlessLast ==
    [][\A c \in Coroutines :
          models_tried'[c] = models_tried[c] + 1
              => IF models_tried'[c] < TotalModels
                 THEN /\ current_model_index' = (current_model_index + 1) % TotalModels
                      /\ llm'.backend = current_model_index'
                      /\ call_pc'[c] = "invoking"
                 ELSE /\ current_model_index' = current_model_index
                      /\ call_pc'[c] = "raised"]_vars

\* Every backend was exhausted: the index rests on the last one tried.
C6_Witness ==
    /\ models_tried[1] = TotalModels
    /\ call_pc[1] = "raised"
    /\ fallbacks[1] = TotalModels - 1
    /\ current_model_index = BackendAfter(1, TotalModels - 1)

----------------------------------------------------------------------------
(* Property of concurrent calls (SpecConc) *)

\* No handler of any call has caught anything but transient errors.
OnlyTransientErrors == \A c \in Coroutines : handled[c] \subseteq {"transient"}

\* C4: with calls racing on the shared index and handle, every attempt of one inner
\* retry loop goes to the same backend, no call tries a backend twice, and a call raises
\* the terminal exhaustion error only after each of the N backends failed for it.
\* Stated for the runs in which every error handled is transient, so that no fallback
\* on another OpenAIError (C5) takes part.
C4_RaceOnlyReorders ==
    OnlyTransientErrors =>
        \A c \in Coroutines :
            /\ Cardinality(loop_backends[c]) <= 1
            /\ loop_backends[c] \cap tried[c] = {}
            /\ error[c] = "RuntimeError" => tried[c] \cup loop_backends[c] = Indices

\* The last part of C4 alone: exhaustion is raised only after all N backends failed.
C4_ExhaustionMeansAllFailed ==
    OnlyTransientErrors =>
        \A c \in Coroutines :
            error[c] = "RuntimeError" => tried[c] \cup loop_backends[c] = Indices

\* The middle part of C4 alone: no call comes back to a backend of an earlier loop.
C4_NoBackendTwice ==
    OnlyTransientErrors =>
        \A c \in Coroutines : loop_backends[c] \cap tried[c] = {}

----------------------------------------------------------------------------
(* Properties of the chat / tool_call state machine (Spec) *)

\* The tool-result messages expected for a batch of requests: one per
\* request, in request order, with the request's call-id and name.
ResultsFor(batch) ==
    [j \in 1 .. Len(batch) |->
        [role |-> "tool", content |-> "tool result", tool_calls |-> <<>>,
         tool_call_id |-> batch[j].id, name |-> batch[j].name]]

AllResolve(batch) == \A j \in 1 .. Len(batch) : batch[j].name \in ToolNames

\* A step in which coroutine c's tool_call node ends, one way or the other.
LeavesToolCall(c) == node[c] = "tool_call" /\ node'[c] # "tool_call"

\* C7 as stated: for every assistant message with n >= 1 tool-call requests whose tools
\* all resolve, the tool_call node appends exactly n tool-result messages, in request
\* order, the i-th with the call-id and name of the i-th request, and goes to chat.
C7_AllResolvedAppendsAll ==
    [][\A c \in Coroutines :
          (LeavesToolCall(c) /\ AllResolve(PendingBatch))
              => /\ node'[c] = "chat"
                 /\ messages' = messages \o ResultsFor(PendingBatch)]_vars

\* C7 as amended: the same, for the batches whose tools all resolve and whose
\* invocations all return (the node does not raise); until then nothing is appended.
C7_CompletedAppendsAll ==
    [][\A c \in Coroutines :
          /\ (LeavesToolCall(c) /\ node'[c] # "failed")
                 => /\ AllResolve(PendingBatch)
                    /\ Len(PendingBatch) >= 1
                    /\ node'[c] = "chat"
                    /\ messages' = messages \o ResultsFor(PendingBatch)
          /\ (node[c] = "tool_call" /\ node'[c] \in {"tool_call", "failed"})
                 => messages' = messages]_vars

\* A batch of two requests was answered by two results, in order, and chat is next.
C7_Witness ==
    /\ node[1] = "chat"
    /\ Len(messages) >= 4
    /\ Len(messages[Len(messages) - 2].tool_calls) = 2
    /\ messages[Len(messages) - 1].tool_call_id = messages[Len(messages) - 2].tool_calls[1].id
    /\ messages[Len(messages)].tool_call_id = messages[Len(messages) - 2].tool_calls[2].id

\* C8: on a successful model call the chat node goes to tool_call exactly when the
\* response carries at least one tool-call request and to the terminal state otherwise;
\* every turn enters the graph at chat.
C8_ChatRouting ==
    [][\A c \in Coroutines :
          /\ (node[c] = "chat" /\ node'[c] \notin {"chat", "failed"})
                 => /\ Len(messages') = Len(messages) + 1
                    /\ messages'[Len(messages')].role = "assistant"
                    /\ node'[c] = "tool_call" <=> messages'[Len(messages')].tool_calls # <<>>
                    /\ node'[c] = "END" <=> messages'[Len(messages')].tool_calls = <<>>
          /\ (node[c] \in {"none", "END", "failed"} /\ node'[c] # node[c])
                 => node'[c] = "chat"]_vars

C8_Witness ==
    /\ node[1] = "tool_call"
    /\ outputs[1] = <<>>
    /\ messages[Len(messages)].role = "assistant"
    /\ messages[Len(messages)].tool_calls # <<>>

\* C9: in every conversation state (the inputs hold no tool-result messages) each
\* tool-result message's call-id is the call-id of a request of the nearest preceding
\* assistant message, and only tool-result messages of that batch lie between the two.
C9_ResultsFollowTheirRequests ==
    \A i \in 1 .. Len(messages) :
        messages[i].role = "tool"
            => \E j \in 1 .. (i - 1) :
                   /\ messages[j].role = "assistant"
                   /\ \A k \in (j + 1) .. i :
                          /\ messages[k].role = "tool"
                          /\ \E t \in 1 .. Len(messages[j].tool_calls) :
                                 messages[j].tool_calls[t].id = messages[k].tool_call_id

\* A tool result of a later turn of the thread.
C9_Witness ==
    \E i \in 1 .. Len(messages) :
        /\ messages[i].role = "tool"
        /\ \E j \in 2 .. (i - 1) : messages[j].role = "user"

\* C10: if a request of the batch names a tool that is not registered, the tool_call
\* node fails (on reaching that request, with the lookup's KeyError), the turn ends with
\* the error and is not retried, and no tool-result message of the batch is appended,
\* not even for the requests invoked before.
C10_UnknownToolFatal ==
    [][\A c \in Coroutines :
          /\ (node[c] = "tool_call" /\ ~AllResolve(PendingBatch))
                 => /\ node'[c] \in {"tool_call", "failed"}
                    /\ messages' = messages
                    /\ node'[c] = "failed" => turn_error'[c] \in {"KeyError", "ToolError"}
          /\ (node[c] = "tool_call" /\ PendingBatch[Len(outputs[c]) + 1].name \notin ToolNames)
                 => /\ node'[c] = "failed"
                    /\ turn_error'[c] = "KeyError"
          /\ (node[c] = "failed" /\ node'[c] # "failed")
                 => /\ node'[c] = "chat"
                    /\ Len(messages') > Len(messages)]_vars

\* The second request of a batch was unknown: the first had been invoked, and the
\* assistant message is still the last message.
C10_Witness ==
    /\ node[1] = "failed"
    /\ turn_error[1] = "KeyError"
    /\ Len(outputs[1]) = 1
    /\ messages[Len(messages)].role = "assistant"
    /\ Len(messages[Len(messages)].tool_calls) = 2

----------------------------------------------------------------------------
(* Properties of get_response (SpecTurn) *)

\* C11: when every backend has failed every retry during a turn (call raised the
\* terminal exhaustion error inside chat), the chat node fails without adding a message,
\* get_response raises that error to its caller, returns no list and creates no task.
C11_ExhaustionRaisesToCaller ==
    [][\A c \in Coroutines :
          /\ (node[c] = "chat" /\ call_pc[c] = "raised" /\ error[c] = "RuntimeError"
                  /\ node'[c] # node[c])
                 => /\ node'[c] = "failed"
                    /\ turn_error'[c] = "RuntimeError"
                    /\ messages' = messages
          /\ (turn_pc[c] = "in_graph" /\ turn_error[c] = "RuntimeError"
                  /\ turn_pc'[c] # turn_pc[c])
                 => /\ turn_pc'[c] = "raised"
                    /\ turn_error'[c] = "RuntimeError"
                    /\ response'[c] = NoResponse
                    /\ messages' = messages
                    /\ tasks' = tasks
          /\ (turn_pc[c] = "raised" /\ turn_pc'[c] = "raised")
                 => response'[c] = NoResponse]_vars

\* A turn has raised the exhaustion error to its caller; the thread ends with the
\* turn's input, not with an assistant message.
C11_Witness ==
    /\ turn_pc[1] = "raised"
    /\ turn_error[1] = "RuntimeError"
    /\ response[1] = NoResponse
    /\ Len(messages) > 0
    /\ Last(messages).role = "user"

\* C12 as stated: a second get_response with the message list of the turn the thread has
\* completed resumes: its run adds no second copy of the input and does not go to the
\* model again (it does not enter chat), so the thread gains no assistant message.
C12_SecondInvocationResumes ==
    [][\A c \in Coroutines :
          (turn_pc[c] = "invoking" /\ CompletedTurnOf(request[c]) /\ turn_pc'[c] # turn_pc[c])
              => /\ messages' = messages
                 /\ node'[c] # "chat"]_vars

\* C12 as amended: the second get_response starts a new run on the persisted thread:
\* the input is added to the thread again and the run enters chat, and when it ends the
\* model has answered again: a further assistant message closes the thread.
C12_SecondInvocationRunsAgain ==
    [][\A c \in Coroutines :
          /\ (turn_pc[c] = "invoking" /\ CompletedTurnOf(request[c])
                  /\ turn_pc'[c] # turn_pc[c])
                 => /\ messages' = messages \o request[c]
                    /\ node'[c] = "chat"
                    /\ turn_pc'[c] = "in_graph"
          /\ (turn_pc[c] = "in_graph" /\ turn_pc'[c] = "returned")
                 => /\ Len(messages) > Len(request[c])
                    /\ path[c][1] = "chat"
                    /\ Last(messages).role = "assistant"
                    /\ \E i \in 1 .. Len(messages) :
                           /\ SubSeq(messages, i, i + Len(request[c]) - 1) = request[c]
                           /\ \A j \in (i + Len(request[c])) .. Len(messages) :
                                  messages[j].role # "user"]_vars

\* The same one-message list was submitted twice and both turns completed: the thread
\* holds the input twice, each copy followed by an assistant message.
C12_Witness ==
    /\ turn_pc[1] = "returned"
    /\ request[1] = <<UserMsg>>
    /\ Len(messages) = 4
    /\ messages[1] = UserMsg
    /\ messages[2].role = "assistant"
    /\ messages[3] = UserMsg
    /\ messages[4].role = "assistant"
    /\ Len(tasks) = 2

\* A turn on a fresh thread has returned: its input was one user message, the model's
\* first response requested one tool call, its second was a plain non-empty text.
OneToolCallTurn(c) ==
    /\ turn_pc[c] = "returned"
    /\ request[c] = <<UserMsg>>
    /\ Len(messages) = 4
    /\ messages[1] = UserMsg
    /\ messages[2].role = "assistant" /\ Len(messages[2].tool_calls) = 1
    /\ messages[3].role = "tool"
    /\ messages[4].role = "assistant" /\ messages[4].tool_calls = <<>>
    /\ messages[4].content # ""

\* C13 as stated: the list returned for such a turn is exactly one message, the
\* assistant message with the final text.
C13_OnlyFinalAnswerReturned ==
    \A c \in Coroutines :
        OneToolCallTurn(c)
            => response[c] = <<[role |-> "assistant", content |-> messages[4].content]>>

\* C13 as amended: the list is the input user message, then the tool-requesting
\* assistant message if its text is non-empty, then the assistant message with the
\* final text; the tool result is not in it.
C13_UserAndAnswersReturned ==
    \A c \in Coroutines :
        OneToolCallTurn(c)
            => response[c] =
                   <<[role |-> "user", content |-> UserMsg.content]>>
                   \o (IF messages[2].content # ""
                       THEN <<[role |-> "assistant", content |-> messages[2].content]>>
                       ELSE <<>>)
                   \o <<[role |-> "assistant", content |-> messages[4].content]>>

\* Such a turn has returned, the tool-requesting message carrying no text: two
\* messages come back.
C13_Witness ==
    /\ OneToolCallTurn(1)
    /\ messages[2].content = ""
    /\ Len(response[1]) = 2

\* The messages the latest turn of the thread appended after its input: those after the
\* last user message.
OwnMessages ==
    LET users == {i \in 1 .. Len(messages) : messages[i].role = "user"}
        from == IF users = {} THEN 0 ELSE CHOOSE i \in users : \A j \in users : j <= i
    IN  SubSeq(messages, from + 1, Len(messages))

\* The number of responses with tool-call requests among them.
ToolCallResponses ==
    Cardinality({i \in 1 .. Len(OwnMessages) :
                     OwnMessages[i].role = "assistant" /\ OwnMessages[i].tool_calls # <<>>})

\* chat, tool_call, chat, ...
Alternates(p) == \A i \in 1 .. Len(p) : p[i] = IF i % 2 = 1 THEN "chat" ELSE "tool_call"

\* C14: the nodes of a turn execute in strict alternation starting at chat, and a turn
\* in which the model's first k responses carry tool-call requests and its (k+1)-th
\* none has executed k+1 chat nodes and k tool_call nodes when it ends.
C14_StrictAlternation ==
    \A c \in Coroutines :
        /\ Alternates(path[c])
        /\ turn_pc[c] = "returned"
               => /\ node[c] = "END"
                  /\ Len(path[c]) = 2 * ToolCallResponses + 1
                  /\ Cardinality({i \in 1 .. Len(OwnMessages) :
                                      OwnMessages[i].role = "assistant"})
                         = ToolCallResponses + 1
                  /\ Last(OwnMessages).tool_calls = <<>>

\* A turn with k = 1 has ended: one chat -> tool_call -> chat cycle.
C14_Witness ==
    /\ turn_pc[1] = "returned"
    /\ ToolCallResponses = 1
    /\ path[1] = <<"chat", "tool_call", "chat">>

\* C15: a failure of the memory search is recovered inside get_response: whatever the
\* awaited search does, the turn goes on to the run of the graph with no error raised
\* to the caller, and no turn ever ends with the search error.
C15_SearchFailureRecovered ==
    [][\A c \in Coroutines :
          /\ (turn_pc[c] = "searching" /\ turn_pc'[c] # "searching")
                 => /\ turn_pc'[c] = "invoking"
                    /\ turn_error'[c] = "none"
                    /\ context'[c] # ""
          /\ turn_error'[c] # "SearchError"]_vars

\* A step of an update task: a task that exists changes its state.
TaskStep == Len(tasks') = Len(tasks) /\ tasks' # tasks

\* C16: a failure of the background memory update stays inside the task: the step in
\* which a task ends, failed or not, raises nothing into any get_response (no position,
\* no error changes) and leaves the responses already returned, and the thread, as they are.
C16_UpdateFailureNeverSurfaces ==
    [][TaskStep
           => /\ turn_pc' = turn_pc
              /\ turn_error' = turn_error
              /\ response' = response
              /\ messages' = messages
              /\ \A i \in 1 .. Len(tasks) :
                     tasks'[i] # tasks[i]
                         => /\ tasks[i].state = "pending"
                            /\ tasks'[i].state \in {"done", "failed"}
                            /\ tasks'[i].messages = tasks[i].messages]_vars

\* The update of a turn failed and the caller still holds the turn's response.
C16_Witness ==
    /\ Len(tasks) = 1
    /\ tasks[1].state = "failed"
    /\ turn_pc[1] = "returned"
    /\ response[1] = ProcessMessages(tasks[1].messages)
    /\ turn_error[1] = "none"

\* C17: an update task is created exactly once for every turn that reaches END, when
\* the run has finished and with the full message list of the thread after the turn;
\* it is never created for a turn that raises; get_response returns with the task
\* still pending.
C17_UpdateScheduledOncePerTurn ==
    [][/\ \A c \in Coroutines :
              /\ (turn_pc[c] = "in_graph" /\ turn_pc'[c] = "returned")
                     => /\ node[c] = "END"
                        /\ Len(tasks') = Len(tasks) + 1
                        /\ SubSeq(tasks', 1, Len(tasks)) = tasks
                        /\ tasks'[Len(tasks')] = [messages |-> messages, state |-> "pending"]
                        /\ response'[c] # NoResponse
              /\ (turn_pc[c] # "raised" /\ turn_pc'[c] = "raised") => tasks' = tasks
       /\ Len(tasks') # Len(tasks)
              => \E c \in Coroutines : turn_pc[c] = "in_graph" /\ turn_pc'[c] = "returned"]_vars

\* A turn with a tool call has returned, its task holding the whole thread and not
\* yet run.
C17_Witness ==
    /\ turn_pc[1] = "returned"
    /\ Len(tasks) = 1
    /\ tasks[1] = [messages |-> messages, state |-> "pending"]
    /\ Len(messages) >= 4
    /\ response[1] # NoResponse

\* C18: when the memory search returns an empty result sequence get_response does not
\* raise and passes the sentinel as long_term_memory; when it returns m >= 1 results the
\* value passed is those results in order, one per line (each as a "* " item).
C18_SentinelOrJoinedResults ==
    \A c \in Coroutines :
        turn_pc[c] \in {"invoking", "in_graph"}
            => /\ turn_error[c] # "SearchError"
               /\ Len(relevant_memory[c]) = 0 => context[c] = "No relevant memory found."
               /\ Len(relevant_memory[c]) = 1 => context[c] = "* " \o relevant_memory[c][1]
               /\ Len(relevant_memory[c]) = 2
                      => context[c] = "* " \o relevant_memory[c][1] \o "\n"
                                          \o "* " \o relevant_memory[c][2]

\* A run was started on the sentinel after a search that found nothing.
C18_Witness ==
    /\ turn_pc[1] = "in_graph"
    /\ relevant_memory[1] = <<>>
    /\ context[1] = Sentinel
    /\ node[1] = "chat"

\* The positions of the thread's messages whose role is user or assistant and whose
\* content is not empty.
ShownPositions ==
    {i \in 1 .. Len(messages) :
         messages[i].role \in {"user", "assistant"} /\ messages[i].content # ""}

\* The k-th of them, in thread order.
ShownPosition(k) ==
    CHOOSE i \in ShownPositions : Cardinality({j \in ShownPositions : j <= i}) = k

\* C19: the list get_response returns is exactly the subsequence of the final state's
\* messages whose role is user or assistant and whose content is non-empty, in their
\* order, as role and content; no tool or system message and no empty one is in it.
C19_ResponseIsFilteredThread ==
    \A c \in Coroutines :
        turn_pc[c] = "returned"
            => /\ Len(response[c]) = Cardinality(ShownPositions)
               /\ \A k \in 1 .. Len(response[c]) :
                      /\ response[c][k].role = messages[ShownPosition(k)].role
                      /\ response[c][k].content = messages[ShownPosition(k)].content
                      /\ response[c][k].role \in {"user", "assistant"}
                      /\ response[c][k].content # ""

\* A turn returned whose thread holds a system message, an assistant message without
\* text and a tool result: only the user message and the answer come back.
C19_Witness ==
    /\ turn_pc[1] = "returned"
    /\ Len(messages) = 5
    /\ messages[1].role = "system"
    /\ messages[3].role = "assistant" /\ messages[3].content = ""
    /\ messages[4].role = "tool"
    /\ response[1] = <<[role |-> "user", content |-> "question"],
                       [role |-> "assistant", content |-> "answer"]>>

----------------------------------------------------------------------------
(* Property of concurrent first turns (SpecFirst) *)

\* C20: with several first turns running concurrently on one agent the pool is opened,
\* the checkpointer set up and the graph compiled at most once, and no turn uses the
\* pool before it has been opened.
C20_InitializedOnce ==
    /\ pool_opens <= 1
    /\ setups <= 1
    /\ compiles <= 1
    /\ ~setup_unopened

\* The first part of C20 alone, in the runs where every setup started on an open pool:
\* the checkpointer is set up and the graph compiled at most once.
C20_SetUpAndCompiledOnce ==
    ~setup_unopened => (setups <= 1 /\ compiles <= 1)

----------------------------------------------------------------------------
(* Properties of the retry schedule (SpecWait) *)

\* Largest MAX_LLM_CALL_RETRIES setting explored.
MaxRetriesSetting == 6

\* The service of the constructed agent under any retry budget the environment may set.
InitWait ==
    /\ default_model = "gpt-4o-mini"
    /\ max_retries \in 1 .. MaxRetriesSetting
    /\ llm = BindTools([backend |-> RegistryGet(default_model), bound |-> FALSE])
    /\ current_model_index = DefaultIndex(default_model)
    /\ agent = "constructed"
    /\ InitCalls
    /\ InitGraph
    /\ InitOrchestrator

NextWait == ServiceStep(1)

SpecWait == InitWait /\ [][NextWait]_vars

\* C21: within one inner loop, of at most MAX_LLM_CALL_RETRIES attempts, the backoff
\* delays never decrease from one retry to the next and none of them exceeds 10 seconds.
C21_DelaysNonDecreasingAndCapped ==
    \A c \in Coroutines :
        /\ Len(delays[c]) < max_retries
        /\ \A j \in 1 .. Len(delays[c]) :
               /\ delays[c][j] <= 10
               /\ j > 1 => delays[c][j - 1] <= delays[c][j]

\* An inner loop that slept five times, the last time for the capped 10 seconds.
C21_Witness ==
    /\ call_pc[1] = "sleeping"
    /\ Len(delays[1]) = 5
    /\ delays[1][5] = 10

\* C22: the delay before the j-th retry of an inner loop is min(10, 2 * 2^(j-1)) seconds:
\* 2, 4, 8, 10, 10, ...
C22_DelayDoublesFromTwo ==
    \A c \in Coroutines :
        \A j \in 1 .. Len(delays[c]) : delays[c][j] = Min2(10, 2 * 2 ^ (j - 1))

----------------------------------------------------------------------------
(* Properties of the service's index and handle (SpecSeq, SpecTurn) *)

\* No call has been made on the service since it was constructed.
NoCallYet == \A c \in Coroutines : call_pc[c] = "idle"

\* C23 as stated: right after construction the sticky index designates backend 0,
\* whatever the configured default model name is.
C23_StartsAtBackendZero == NoCallYet => current_model_index = 0

\* C23 as amended: right after construction the sticky index designates the registry
\* position of the configured default model, and backend 0 when that name is not in the
\* registry; afterwards the index is set by nothing but a fallback advance to the next
\* registry position.
C23_StartsAtConfiguredDefault ==
    /\ [](NoCallYet =>
            IF default_model \in AllNames
            THEN LLMS[current_model_index + 1] = default_model
            ELSE current_model_index = 0)
    /\ [][current_model_index' # current_model_index =>
            /\ current_model_index' = (current_model_index + 1) % TotalModels
            /\ \E c \in Coroutines : fallbacks'[c] = fallbacks[c] + 1]_vars

\* The service constructed with the default "gpt-4o-mini" and tools bound, no call made:
\* the index is on the third registry entry.
C23_Witness ==
    /\ NoCallYet
    /\ agent = "constructed"
    /\ default_model = "gpt-4o-mini"
    /\ current_model_index = 2

----------------------------------------------------------------------------
(* Termination of a call (SpecWaitFair) *)

\* The awaited ainvoke of coroutine c completes, with a message or with an exception.
InvocationEnds(c) ==
    (AinvokeReturns(c) \/ AinvokeRaises(c)) /\ UNCHANGED <<graph_vars, turn_vars>>

\* The backoff sleep of coroutine c completes.
SleepEnds(c) == RetryWake(c) /\ UNCHANGED <<graph_vars, turn_vars>>

\* Every awaited backend invocation and every sleep of the event loop completes.
FairWait == \A c \in Coroutines : WF_vars(InvocationEnds(c)) /\ WF_vars(SleepEnds(c))

SpecWaitFair == InitWait /\ [][NextWait]_vars /\ FairWait

\* C24: provided every backend invocation returns or raises, every call terminates (it
\* returns a message or raises); one inner retry loop makes at most MAX_LLM_CALL_RETRIES
\* invocations, a call runs at most N inner loops and makes at most
\* N * MAX_LLM_CALL_RETRIES invocations in total.
C24_CallTerminatesWithinBudget ==
    /\ [](\A c \in Coroutines :
            /\ attempt[c] <= max_retries
            /\ models_tried[c] <= TotalModels
            /\ attempts_made[c] <= TotalModels * max_retries)
    /\ \A c \in Coroutines :
           call_pc[c] \in {"invoking", "sleeping"} ~> call_pc[c] \in {"returned", "raised"}

\* A call that ended after spending the whole budget of six attempts on each backend.
C24_Witness ==
    /\ call_pc[1] = "raised"
    /\ error[1] = "RuntimeError"
    /\ max_retries = 6
    /\ attempts_made[1] = TotalModels * 6

----------------------------------------------------------------------------
(* Properties of the handle the calls invoke (SpecWait, SpecSeq) *)

\* C25: once bind_tools has been applied to the service (the agent is constructed),
\* every backend invocation of a call is made on a tool-bound handle, also after
\* fallback switches and after the index has cycled back to the backend bound first.
C25_InvocationsToolBound ==
    agent = "constructed" =>
        \A c \in Coroutines : call_pc[c] = "invoking" => invoked[c].bound

\* C26: in every state of the service (after construction, bind_tools and any calls and
\* fallbacks) the sticky index lies in 0 .. N-1 and the current handle is the handle, or
\* the tool-bound wrapper, of the registry backend at that index; also when the
\* configured default model name is not in the registry.
C26_HandleMatchesIndex ==
    /\ current_model_index \in 0 .. TotalModels - 1
    /\ llm.backend = current_model_index
    /\ llm.bound \in BOOLEAN

\* A service configured with a name the registry does not hold, tools bound, whose call
\* returned after two fallbacks: index and handle are both on the third backend.
C26_Witness ==
    /\ default_model = "unlisted-model"
    /\ agent = "constructed"
    /\ call_pc[1] = "returned"
    /\ fallbacks[1] = 2
    /\ current_model_index = 2
    /\ llm.backend = 2

----------------------------------------------------------------------------
(* Property of the thread's message sequence (Spec) *)

\* C27: the message sequence of the thread is append-only: every step leaves the
\* messages already present unchanged and in order; a chat node that succeeds appends
\* exactly one assistant message, a tool_call node that succeeds exactly one tool
\* message per request of the batch, and a node appends nothing while it runs or when
\* it fails.
C27_AppendOnly ==
    [][/\ Len(messages') >= Len(messages)
       /\ SubSeq(messages', 1, Len(messages)) = messages
       /\ \A c \in Coroutines :
              /\ (node[c] = "chat" /\ node'[c] \in {"tool_call", "END"}) =>
                     /\ Len(messages') = Len(messages) + 1
                     /\ messages'[Len(messages')].role = "assistant"
              /\ (node[c] = "tool_call" /\ node'[c] = "chat") =>
                     /\ Len(messages') = Len(messages) + Len(PendingBatch)
                     /\ \A j \in 1 .. Len(PendingBatch) :
                            messages'[Len(messages) + j].role = "tool"
              /\ (node[c] \in {"chat", "tool_call"} /\ node'[c] \in {node[c], "failed"}) =>
                     messages' = messages]_vars

\* A turn whose batch of two requests was answered by two tool messages and whose next
\* chat node failed: the thread still ends with the two tool messages.
C27_Witness ==
    /\ node[1] = "failed"
    /\ turn_error[1] = "RuntimeError"
    /\ Len(messages) = 4
    /\ messages[2].role = "assistant" /\ Len(messages[2].tool_calls) = 2
    /\ messages[3].role = "tool"
    /\ messages[4].role = "tool"

====
